---- MODULE Spec2Model ----
(***************************************************************************)
(* Music-Tagger, song.py: the metadata resolution of one MP3 file from an  *)
(* AcoustID lookup response (from_json parsing, release choice, candidate  *)
(* ranking, confidence gate) and the per-file loop of main().              *)
(*                                                                         *)
(* JSON objects are functions over their keys, so an absent key is a key   *)
(* outside DOMAIN.  Python lists are sequences.  Strings are strings and   *)
(* are joined with \o.  The audio score, a float in [0,1] in the program,  *)
(* is counted in hundredths (0.40 is 40).  Optional[...] is a sequence of  *)
(* length 0 (None) or 1.                                                   *)
(***************************************************************************)
EXTENDS Integers, Sequences, FiniteSets, TLC

VARIABLES
    arguments,   \* main: the parsed flags manual, skip, keep
    idx,         \* main: index in mp3files of the file the loop is at
    pc,          \* position in the code
    response,    \* fingerprint_mp3file: the lookup response of the current file
    mp3file,     \* the file being resolved
    matches,     \* find_best_match: the list of candidate Matches
    match,       \* fingerprint_mp3file: the Match find_best_match returned
    song,        \* main: the Song handed on
    confident,   \* main: the flag is_confident returned
    wf,          \* per file: the workflow state reached
    disk,        \* per file: where the file is and what was done to it
    raised       \* the uncaught exception that ended the run, or "none"

vars == <<arguments, idx, pc, response, mp3file, matches, match, song, confident, wf, disk, raised>>

(***************************************************************************)
(* Bounds of the model.                                                    *)
(***************************************************************************)
\* files in one batch
NumFiles == 2
\* recordings (or recording-less results) in one generated lookup response
MaxCandidates == 2
\* release-groups of one generated recording
MaxReleases == 3

(***************************************************************************)
(* Program constants.                                                      *)
(***************************************************************************)
ReleaseTypeScore_ALBUM == 10
ReleaseTypeScore_SINGLE == 5
ReleaseTypeScore_OTHER == 0
\* Match.is_confident: 0.40, in hundredths
AudioThreshold == 40
FileThreshold == 70
\* find_best_match: the weight of the file score in the ranking key
FileWeight == 1000

(***************************************************************************)
(* Python built-ins used by the program.                                   *)
(***************************************************************************)
\* dict.get(key, default)
Get(json, key, default) == IF key \in DOMAIN json THEN json[key] ELSE default

\* str.upper on the type names the lookup service sends
Upper(s) ==
    CASE s = "Album" -> "ALBUM"
      [] s = "Single" -> "SINGLE"
      [] s = "EP" -> "EP"
      [] s = "Compilation" -> "COMPILATION"
      [] s = "" -> ""

\* os.path.basename of the files of the batch
Basename(path) ==
    CASE path = "downloaded/Artist - Song.mp3" -> "Artist - Song.mp3"
      [] path = "downloaded/Other - Tune (Official Video).mp3" -> "Other - Tune (Official Video).mp3"
      [] path = "downloaded/Artist - Tune.mp3" -> "Artist - Tune.mp3"

\* fuzzywuzzy's fuzz.token_set_ratio (difflib based) on the strings of the model:
\* both strings lower-cased with non-alphanumerics turned to blanks, split into
\* token sets, and the best ratio among intersection and the two recombinations.
token_set_ratio(s1, s2) ==
    CASE s2 = "Artist - Song.mp3" ->
           (CASE s1 = " - " -> 0
              [] s1 = " - Song" -> 100
              [] s1 = " - Tune" -> 21
              [] s1 = "Artist - " -> 100
              [] s1 = "Artist - Song" -> 100
              [] s1 = "Artist - Tune" -> 71
              [] s1 = "Other - " -> 10
              [] s1 = "Other - Song" -> 57
              [] s1 = "Other - Tune" -> 16
              [] s1 = "Artist feat. Other - " -> 57
              [] s1 = "Artist feat. Other - Song" -> 85
              [] s1 = "Artist feat. Other - Tune" -> 57)
      [] s2 = "Other - Tune (Official Video).mp3" ->
           (CASE s1 = " - " -> 0
              [] s1 = " - Song" -> 12
              [] s1 = " - Tune" -> 100
              [] s1 = "Artist - " -> 23
              [] s1 = "Artist - Song" -> 25
              [] s1 = "Artist - Tune" -> 53
              [] s1 = "Other - " -> 100
              [] s1 = "Other - Song" -> 67
              [] s1 = "Other - Tune" -> 100
              [] s1 = "Artist feat. Other - " -> 45
              [] s1 = "Artist feat. Other - Song" -> 43
              [] s1 = "Artist feat. Other - Tune" -> 62)
      [] s2 = "Artist - Tune.mp3" ->
           (CASE s1 = " - " -> 0
              [] s1 = " - Song" -> 21
              [] s1 = " - Tune" -> 100
              [] s1 = "Artist - " -> 100
              [] s1 = "Artist - Song" -> 71
              [] s1 = "Artist - Tune" -> 100
              [] s1 = "Other - " -> 20
              [] s1 = "Other - Song" -> 16
              [] s1 = "Other - Tune" -> 57
              [] s1 = "Artist feat. Other - " -> 57
              [] s1 = "Artist feat. Other - Song" -> 57
              [] s1 = "Artist feat. Other - Tune" -> 85)

(***************************************************************************)
(* Parsing of the lookup response.                                         *)
(***************************************************************************)
RECURSIVE parse_artist_loop(_, _)
parse_artist_loop(artists, artist_joined) ==
    IF artists = <<>> THEN artist_joined
    ELSE LET artist == Head(artists)
             named == artist_joined \o artist["name"]
         IN parse_artist_loop(Tail(artists),
                IF "joinphrase" \in DOMAIN artist
                THEN named \o artist["joinphrase"] ELSE named)

parse_artist(artists) == parse_artist_loop(artists, "")

\* the members of the enum AcoustidReleaseType, by name
AcoustidReleaseType == {"SINGLE", "ALBUM", "OTHER"}

AcoustidReleaseType_get(key, default) ==
    IF key \in AcoustidReleaseType THEN key ELSE default

parse_types(type, secondarytypes) ==
    <<AcoustidReleaseType_get(Upper(type), "OTHER")>> \o
    [i \in 1..Len(secondarytypes) |-> AcoustidReleaseType_get(Upper(secondarytypes[i]), "OTHER")]

AcoustidRelease_from_json(json) ==
    [artist |-> parse_artist(Get(json, "artists", <<>>)),
     title |-> Get(json, "title", ""),
     types |-> parse_types(Get(json, "type", ""), Get(json, "secondarytypes", <<>>))]

AcoustidRecording_from_json(json) ==
    [artist |-> parse_artist(Get(json, "artists", <<>>)),
     title |-> Get(json, "title", ""),
     releases |-> LET groups == Get(json, "releasegroups", <<>>)
                  IN [i \in 1..Len(groups) |-> AcoustidRelease_from_json(groups[i])]]

AcoustidResult_from_json(json) ==
    [score |-> Get(json, "score", 0),
     recordings |-> LET recs == Get(json, "recordings", <<>>)
                    IN [i \in 1..Len(recs) |-> AcoustidRecording_from_json(recs[i])]]

ReleaseTypeScore(name) ==
    CASE name = "ALBUM" -> ReleaseTypeScore_ALBUM
      [] name = "SINGLE" -> ReleaseTypeScore_SINGLE
      [] name = "OTHER" -> ReleaseTypeScore_OTHER

(***************************************************************************)
(* Scoring, release choice, ranking and the confidence gate.               *)
(***************************************************************************)
Song(artist, title, album) == [artist |-> artist, title |-> title, album |-> album]
Score(audio, file, type) == [audio |-> audio, file |-> file, type |-> type]
Match(s, sc) == [song |-> s, score |-> sc]

\* a gate that lets a classified release stand in for the file score
is_confident_lenient(m) ==
    /\ m.score.audio >= AudioThreshold
    /\ (m.score.file >= FileThreshold \/ m.score.type >= ReleaseTypeScore_SINGLE)

is_confident(m) ==
    /\ m.score.audio >= AudioThreshold
    /\ m.score.file >= FileThreshold
    /\ m.score.type >= ReleaseTypeScore_SINGLE

RECURSIVE find_album(_)
find_album(releases) ==
    IF releases = <<>> THEN <<>>
    ELSE LET release == Head(releases)
         IN IF Len(release.types) = 1 /\ release.types[1] = "ALBUM"
            THEN <<release>>
            ELSE find_album(Tail(releases))

RECURSIVE find_single(_)
find_single(releases) ==
    IF releases = <<>> THEN <<>>
    ELSE LET release == Head(releases)
         IN IF Len(release.types) = 1 /\ release.types[1] = "SINGLE"
            THEN <<release>>
            ELSE find_single(Tail(releases))

score_recording_for_file(recording, basename) ==
    token_set_ratio(recording.artist \o " - " \o recording.title, basename)

\* a choice that looks for the single before the album
ChooseRelease_single_first(recording) ==
    LET album == find_album(recording.releases)
        single == find_single(recording.releases)
    IN IF single # <<>> THEN single[1]
       ELSE IF album # <<>> THEN album[1]
       ELSE [artist |-> "", title |-> recording.title \o " - Single", types |-> <<"OTHER">>]

\* find_best_match, lines 209-213: album or single or the synthetic fallback
ChooseRelease(recording) ==
    LET album == find_album(recording.releases)
        single == find_single(recording.releases)
    IN IF album # <<>> THEN album[1]
       ELSE IF single # <<>> THEN single[1]
       ELSE [artist |-> "", title |-> recording.title \o " - Single", types |-> <<"OTHER">>]

\* find_best_match, lines 207-221: the Match appended for one recording
MatchOf(result, recording, mp3basename) ==
    LET file_score == score_recording_for_file(recording, mp3basename)
        release == ChooseRelease(recording)
    IN Match(Song(recording.artist, recording.title, release.title),
             Score(result.score, file_score, ReleaseTypeScore(release.types[1])))

SentinelMatch == Match(Song("", "", ""), Score(0, 0, ReleaseTypeScore_OTHER))

RECURSIVE MatchesOfResults(_, _)
MatchesOfResults(results, mp3basename) ==
    IF results = <<>> THEN <<>>
    ELSE LET result == Head(results)
         IN [i \in 1..Len(result.recordings) |-> MatchOf(result, result.recordings[i], mp3basename)]
            \o MatchesOfResults(Tail(results), mp3basename)

\* find_best_match, lines 204-221: the list matches
Matches(results, mp3basename) == <<SentinelMatch>> \o MatchesOfResults(results, mp3basename)

\* a key that weighs the release tier instead of the file score
MatchKey_release_first(m) == m.score.file + m.score.type * FileWeight

\* the key of max() in find_best_match
MatchKey(m) == m.score.file * FileWeight + m.score.type

\* Python's max(iterable, key): the first item no later item's key exceeds
RECURSIVE MaxLoop(_, _)
MaxLoop(items, best) ==
    IF items = <<>> THEN best
    ELSE MaxLoop(Tail(items), IF MatchKey(Head(items)) > MatchKey(best) THEN Head(items) ELSE best)

\* a maximum that keeps the last of the items with the greatest key
RECURSIVE MaxLoopLast(_, _)
MaxLoopLast(items, best) ==
    IF items = <<>> THEN best
    ELSE MaxLoopLast(Tail(items), IF MatchKey(Head(items)) >= MatchKey(best) THEN Head(items) ELSE best)

MaxByKey_last(items) == MaxLoopLast(Tail(items), Head(items))

MaxByKey(items) == MaxLoop(Tail(items), Head(items))

find_best_match(results, mp3basename) == MaxByKey(Matches(results, mp3basename))

\* fingerprint_mp3file, lines 232-233: the parsed results that have recordings
ParseResults(resp) ==
    LET raw == resp["results"]
        parsed == [i \in 1..Len(raw) |-> AcoustidResult_from_json(raw[i])]
    IN SelectSeq(parsed, LAMBDA result : Len(result.recordings) > 0)

\* fingerprint_mp3file on a response acoustid.match returned: KeyError when the
\* response has no "results", else the song and the flag
fingerprint_mp3file(resp, file) ==
    IF "results" \notin DOMAIN resp
    THEN [raised |-> "KeyError"]
    ELSE LET results == ParseResults(resp)
             m == find_best_match(results, Basename(file))
         IN [raised |-> "none", matches |-> Matches(results, Basename(file)), match |-> m,
             song |-> m.song, confident |-> is_confident(m)]

(***************************************************************************)
(* The lookup responses and files the model draws its inputs from.         *)
(***************************************************************************)
\* main: the files of the batch, in order
AllFiles ==
    <<"downloaded/Artist - Song.mp3",
      "downloaded/Other - Tune (Official Video).mp3",
      "downloaded/Artist - Tune.mp3">>

mp3files == SubSeq(AllFiles, 1, IF NumFiles < Len(AllFiles) THEN NumFiles ELSE Len(AllFiles))

Files == 1..Len(mp3files)

\* json with key set to the value in opt, when opt holds one
OptField(json, key, opt) == IF opt = <<>> THEN json ELSE json @@ (key :> opt[1])

RECURSIVE SeqsUpTo(_, _)
SeqsUpTo(S, n) ==
    IF n = 0 THEN {<<>>}
    ELSE LET shorter == SeqsUpTo(S, n - 1)
         IN shorter \cup {<<x>> \o s : x \in S, s \in {t \in shorter : Len(t) = n - 1}}

SeqsOfLen(S, n) == {s \in SeqsUpTo(S, n) : Len(s) = n}

CreditArtist == <<[name |-> "Artist"]>>
CreditOther == <<[name |-> "Other"]>>
CreditFeat == <<[name |-> "Artist", joinphrase |-> " feat. "], [name |-> "Other"]>>

RgAlbum == [type |-> "Album", title |-> "LP", artists |-> CreditArtist]
RgForeignAlbum == [type |-> "Album", title |-> "Mixtape", artists |-> CreditOther, secondarytypes |-> <<>>]
RgCompilation == [type |-> "Album", title |-> "Hits", artists |-> CreditOther, secondarytypes |-> <<"Compilation">>]
RgSingle == [type |-> "Single", title |-> "Song", artists |-> CreditArtist]
RgSingleB == [type |-> "Single", title |-> "Song (Remix)", artists |-> CreditFeat]
RgEP == [type |-> "EP", title |-> "Songs EP", artists |-> CreditArtist]
RgUntyped == [title |-> "Demo"]

RawReleaseGroups == {RgAlbum, RgForeignAlbum, RgCompilation, RgSingle, RgSingleB, RgEP, RgUntyped}

\* recordings with every combination of present and absent fields and every
\* list of at most MaxReleases release-groups
GenRecordings ==
    {OptField(OptField(OptField([id |-> "recording"], "artists", a), "title", t), "releasegroups", g) :
        a \in {<<>>, <<CreditArtist>>, <<CreditFeat>>},
        t \in {<<>>, <<"Song">>},
        g \in {<<>>} \cup {<<groups>> : groups \in SeqsUpTo(RawReleaseGroups, MaxReleases)}}

ReleaseResponses == {[results |-> <<[score |-> 90, recordings |-> <<rec>>]>>] : rec \in GenRecordings}

RecExact == [id |-> "recording", artists |-> CreditArtist, title |-> "Song", releasegroups |-> <<RgAlbum>>]
RecNoRelease == [id |-> "recording", artists |-> CreditArtist, title |-> "Song"]
RecSingle == [id |-> "recording", artists |-> CreditArtist, title |-> "Song", releasegroups |-> <<RgSingle>>]
RecOtherAlbum == [id |-> "recording", artists |-> CreditOther, title |-> "Tune", releasegroups |-> <<RgForeignAlbum>>]
RecFeat == [id |-> "recording", artists |-> CreditFeat, title |-> "Song", releasegroups |-> <<RgSingleB>>]
RecNoArtists == [id |-> "recording", title |-> "Song", releasegroups |-> <<RgAlbum>>]
RecBare == [id |-> "recording"]

RawRecordings == {RecExact, RecNoRelease, RecSingle, RecOtherAlbum, RecFeat, RecNoArtists, RecBare}

\* results holding k recordings; for k = 0, results without usable recordings
RawResults(k) ==
    IF k = 0
    THEN {[id |-> "result", score |-> 90], [id |-> "result", score |-> 90, recordings |-> <<>>]}
    ELSE {[id |-> "result", score |-> sc, recordings |-> recs] :
              sc \in {30, 90}, recs \in SeqsOfLen(RawRecordings, k)}
         \cup (IF k = 1 THEN {[id |-> "result", recordings |-> <<RecExact>>]} ELSE {})

\* result lists with at most budget recordings (a recording-less result counts as one)
RECURSIVE ResultSeqs(_)
ResultSeqs(budget) ==
    {<<>>} \cup
    UNION {{<<r>> \o rest : r \in RawResults(k) \cup (IF k = 1 THEN RawResults(0) ELSE {}),
                            rest \in ResultSeqs(budget - k)} : k \in 1..budget}

RankingResponses == {[results |-> rs] : rs \in ResultSeqs(MaxCandidates)}

\* a response of the lookup service that reports an error has no results
ErrorResponse == [status |-> "error"]

Responses == ReleaseResponses \cup RankingResponses \cup {ErrorResponse}

(***************************************************************************)
(* Resolution of one file as a function of the response: SpecMatch.        *)
(***************************************************************************)
NoFlags == [manual |-> FALSE, skip |-> FALSE, keep |-> FALSE]
\* source: the file is where it was given; skipped: it is in the skip directory;
\* output: it is in the output directory, at path; tagged, normalized: what was
\* done to the file at path
FreshDisk == [source |-> TRUE, skipped |-> FALSE, output |-> FALSE, path |-> "",
              tagged |-> FALSE, normalized |-> FALSE]

InitMatch ==
    /\ arguments = NoFlags
    /\ idx = 1
    /\ pc = "input"
    /\ response \in Responses
    /\ mp3file \in {mp3files[i] : i \in Files}
    /\ matches = <<>>
    /\ match = SentinelMatch
    /\ song = SentinelMatch.song
    /\ confident = FALSE
    /\ wf = [f \in Files |-> "PENDING"]
    /\ disk = [f \in Files |-> FreshDisk]
    /\ raised = "none"

\* fingerprint_mp3file applied to the response
Resolve ==
    /\ pc = "input"
    /\ LET r == fingerprint_mp3file(response, mp3file)
       IN IF r.raised = "none"
          THEN /\ matches' = r.matches
               /\ match' = r.match
               /\ song' = r.song
               /\ confident' = r.confident
               /\ raised' = "none"
          ELSE /\ raised' = r.raised
               /\ UNCHANGED <<matches, match, song, confident>>
    /\ pc' = "resolved"
    /\ UNCHANGED <<arguments, idx, response, mp3file, wf, disk>>

NextMatch == Resolve

SpecMatch == InitMatch /\ [][NextMatch]_vars

(***************************************************************************)
(* The confidence gate as a function of the Match: SpecGate.               *)
(***************************************************************************)
GateMatches ==
    {Match(Song("Artist", "Song", "LP"), Score(audio, file, type)) :
        audio \in {0, 39, 40, 41, 100},
        file \in {0, 69, 70, 71, 100},
        type \in {ReleaseTypeScore_OTHER, ReleaseTypeScore_SINGLE, ReleaseTypeScore_ALBUM}}

InitGate ==
    /\ arguments = NoFlags
    /\ idx = 1
    /\ pc = "matched"
    /\ response = [results |-> <<>>]
    /\ mp3file = mp3files[1]
    /\ matches = <<>>
    /\ match \in GateMatches
    /\ song = match.song
    /\ confident = FALSE
    /\ wf = [f \in Files |-> "PENDING"]
    /\ disk = [f \in Files |-> FreshDisk]
    /\ raised = "none"

\* Match.is_confident applied to the match
Gate ==
    /\ pc = "matched"
    /\ confident' = is_confident(match)
    /\ pc' = "gated"
    /\ UNCHANGED <<arguments, idx, response, mp3file, matches, match, song, wf, disk, raised>>

NextGate == Gate

SpecGate == InitGate /\ [][NextGate]_vars

(***************************************************************************)
(* main(): the loop over the files of the batch: Spec.                     *)
(***************************************************************************)
\* what acoustid.match can return for a file
LookupResponses == {ErrorResponse} \cup {[results |-> rs] : rs \in ResultSeqs(1)}

\* the value of response before the lookup of a file
NoResponse == [pending |-> TRUE]

Init ==
    /\ arguments \in [manual : BOOLEAN, skip : BOOLEAN, keep : BOOLEAN]
    /\ idx = 1
    /\ pc = "fingerprint"
    /\ response = NoResponse
    /\ mp3file = mp3files[1]
    /\ matches = <<>>
    /\ match = SentinelMatch
    /\ song = SentinelMatch.song
    /\ confident = FALSE
    /\ wf = [f \in Files |-> "PENDING"]
    /\ disk = [f \in Files |-> FreshDisk]
    /\ raised = "none"

\* an uncaught exception leaves main
Halt(exception) ==
    /\ pc' = "halted"
    /\ raised' = exception

\* line 396 (231): acoustid.match raises (network error, timeout, error status)
LookupFailure ==
    /\ pc = "fingerprint"
    /\ Halt("WebServiceError")
    /\ UNCHANGED <<arguments, idx, response, mp3file, matches, match, song, confident, wf, disk>>

\* line 396: song, confident = fingerprint_mp3file(mp3file)
Fingerprint ==
    /\ pc = "fingerprint"
    /\ \E resp \in LookupResponses :
         LET r == fingerprint_mp3file(resp, mp3file)
         IN /\ response' = resp
            /\ IF r.raised = "none"
               THEN /\ matches' = r.matches
                    /\ match' = r.match
                    /\ song' = r.song
                    /\ confident' = r.confident
                    /\ wf' = [wf EXCEPT ![idx] = "LOOKED_UP"]
                    /\ pc' = "route"
                    /\ raised' = "none"
               ELSE /\ Halt(r.raised)
                    /\ UNCHANGED <<matches, match, song, confident, wf>>
    /\ UNCHANGED <<arguments, idx, mp3file, disk>>

\* a condition that asks for review only when both hold
NeedsReview_both(conf, manual) == ~conf /\ manual

\* line 399: the condition of the if
NeedsReview(conf, manual) == ~conf \/ manual

\* line 399: the branch taken after the lookup
Route ==
    /\ pc = "route"
    /\ IF NeedsReview(confident, arguments.manual)
       THEN /\ wf' = [wf EXCEPT ![idx] = "NEEDS_REVIEW"]
            /\ pc' = "review"
       ELSE /\ wf' = [wf EXCEPT ![idx] = "AUTO_ACCEPTED"]
            /\ pc' = "modify"
    /\ UNCHANGED <<arguments, idx, response, mp3file, matches, match, song, confident, disk, raised>>

\* copy_or_move of an existing source to another directory: the source stays
\* under keep_original and is gone otherwise
SourceAfter(keep_original) == keep_original

\* lines 401-405: the file is copied or moved to the skip directory
SkipFile ==
    /\ pc = "review"
    /\ arguments.skip
    /\ disk' = [disk EXCEPT ![idx].skipped = TRUE, ![idx].source = SourceAfter(arguments.keep)]
    /\ wf' = [wf EXCEPT ![idx] = "SKIPPED"]
    /\ pc' = "modify"
    /\ UNCHANGED <<arguments, idx, response, mp3file, matches, match, song, confident, raised>>

\* input(prompt) or old: a blank answer keeps the old value
Answer(new, old) == IF new = "" THEN old ELSE new

\* lines 406-408: song = ask_user(mp3file, song)
AskUser ==
    /\ pc = "review"
    /\ ~arguments.skip
    /\ \E adjust \in BOOLEAN, submit \in BOOLEAN, submitted \in BOOLEAN,
          artist \in {"", "Artist"}, title \in {"", "Song"}, album \in {"", "LP"} :
         IF adjust /\ submit /\ ~submitted
         THEN /\ Halt("WebServiceError")
              /\ UNCHANGED <<song, wf>>
         ELSE /\ song' = IF adjust
                         THEN Song(Answer(artist, song.artist), Answer(title, song.title),
                                   Answer(album, song.album))
                         ELSE song
              /\ wf' = [wf EXCEPT ![idx] = "MANUALLY_CORRECTED"]
              /\ pc' = "modify"
              /\ raised' = "none"
    /\ UNCHANGED <<arguments, idx, response, mp3file, matches, match, confident, disk>>

\* rename_mp3file, line 292: the path of the file in the output directory
\* (no name of this universe holds a "/", which the code replaces by a division sign)
OutputPath(s) == "finished/" \o s.artist \o " - " \o s.title \o ".mp3"

\* the disk after rename_mp3file has copied or moved file i to the output path
\* of s, and the tags were written (tagged) and the volume normalized
\* (normalized) there: an earlier file that was at the same path is written over
Renamed(d, i, s, keep_original, tagged, normalized) ==
    [f \in Files |->
        IF f = i
        THEN [d[f] EXCEPT !.source = SourceAfter(keep_original), !.output = TRUE,
                          !.path = OutputPath(s), !.tagged = tagged, !.normalized = normalized]
        ELSE IF d[f].output /\ d[f].path = OutputPath(s)
        THEN [d[f] EXCEPT !.output = FALSE, !.path = "", !.tagged = FALSE, !.normalized = FALSE]
        ELSE d[f]]

\* line 410 and the head of the loop: mp3file is bound to the path
\* modify_mp3file returned, and then to the next file, if there is one
NextFile ==
    IF idx < Len(mp3files)
    THEN /\ idx' = idx + 1
         /\ mp3file' = mp3files[idx + 1]
         /\ pc' = "fingerprint"
    ELSE /\ idx' = idx
         /\ mp3file' = OutputPath(song)
         /\ pc' = "halted"

\* lines 410-417: modify_mp3file renames (copies or moves) the file into the
\* output directory, writes the tags with the cover and normalizes the volume
ModifyFile ==
    /\ pc = "modify"
    /\ \E cover \in BOOLEAN, normalize \in BOOLEAN :
         IF ~disk[idx].source
         THEN \* rename_mp3file: the source is gone
              /\ Halt("FileNotFoundError")
              /\ UNCHANGED <<idx, mp3file, disk, response, matches, match>>
         ELSE IF ~cover
         THEN \* download_cover: sacad failed, sys.exit before audio.save()
              /\ disk' = Renamed(disk, idx, song, arguments.keep, FALSE, FALSE)
              /\ Halt("SystemExit")
              /\ UNCHANGED <<idx, mp3file, response, matches, match>>
         ELSE IF ~normalize
         THEN \* normalize_mp3file: ffmpeg-normalize failed, sys.exit
              /\ disk' = Renamed(disk, idx, song, arguments.keep, TRUE, FALSE)
              /\ Halt("SystemExit")
              /\ UNCHANGED <<idx, mp3file, response, matches, match>>
         ELSE /\ disk' = Renamed(disk, idx, song, arguments.keep, TRUE, TRUE)
              /\ NextFile
              /\ raised' = "none"
              \* the locals of fingerprint_mp3file and find_best_match are gone
              /\ response' = NoResponse
              /\ matches' = <<>>
              /\ match' = SentinelMatch
    \* main's song and confident stay until line 396 assigns them again
    /\ UNCHANGED <<arguments, wf, song, confident>>

Next == LookupFailure \/ Fingerprint \/ Route \/ SkipFile \/ AskUser \/ ModifyFile

Spec == Init /\ [][Next]_vars

(***************************************************************************)
(* Properties.                                                             *)
(***************************************************************************)
Terminal == {"AUTO_ACCEPTED", "SKIPPED", "MANUALLY_CORRECTED"}

\* the lookup of the current file has returned a response without results
NoResultsLookedUp ==
    /\ response # NoResponse
    /\ Get(response, "results", <<>>) = <<>>

\* C1: a lookup response whose results are empty or absent resolves, without an
\* error, to the sentinel Match with confident = false, and the file goes to
\* NEEDS_REVIEW (Spec).
C1_NoResultsGiveSentinel ==
    NoResultsLookedUp =>
        /\ raised # "KeyError"
        /\ wf[idx] \in {"LOOKED_UP", "NEEDS_REVIEW", "SKIPPED", "MANUALLY_CORRECTED"}
        /\ match = SentinelMatch
        /\ ~confident
        /\ (pc = "route" => song = Song("", "", ""))

\* the raw recordings of a response, results in order, recordings in order
RECURSIVE RawRecordingsOf(_)
RawRecordingsOf(rawResults) ==
    IF rawResults = <<>> THEN <<>>
    ELSE Get(Head(rawResults), "recordings", <<>>) \o RawRecordingsOf(Tail(rawResults))

\* the audio scores of the results, one per raw recording
RECURSIVE RawScoresOf(_)
RawScoresOf(rawResults) ==
    IF rawResults = <<>> THEN <<>>
    ELSE LET n == Len(Get(Head(rawResults), "recordings", <<>>))
         IN [i \in 1..n |-> Get(Head(rawResults), "score", 0)] \o RawScoresOf(Tail(rawResults))

Resolved == pc = "resolved" /\ raised = "none"

Complete(rawRecording) == "artists" \in DOMAIN rawRecording /\ "title" \in DOMAIN rawRecording

\* C2: a raw recording without artists or without title never becomes a
\* candidate of find_best_match: the candidates are the sentinel and one Match
\* per complete recording, and the selected Match is one of them (SpecMatch).
C2_IncompleteRecordingsDropped ==
    Resolved =>
        LET raw == RawRecordingsOf(response["results"])
            complete == {i \in 1..Len(raw) : Complete(raw[i])}
        IN /\ Len(matches) = 1 + Cardinality(complete)
           /\ \/ match = SentinelMatch
              \/ \E i \in complete :
                    /\ match.song.artist = parse_artist(raw[i]["artists"])
                    /\ match.song.title = raw[i]["title"]

AudioMet(m) == m.score.audio >= 40
FileMet(m) == m.score.file >= 70
ReleaseMet(m) == m.score.type >= 5

\* C3: is_confident is true exactly when audio >= 0.40 and file >= 70 and the
\* release tier is at least SINGLE; with any one of the three not met, also
\* when the other two are met, it is false (SpecGate).
C3_ConfidentIsConjunction ==
    pc = "gated" =>
        /\ confident <=> (AudioMet(match) /\ FileMet(match) /\ ReleaseMet(match))
        /\ (~AudioMet(match) /\ FileMet(match) /\ ReleaseMet(match)) => ~confident
        /\ (AudioMet(match) /\ ~FileMet(match) /\ ReleaseMet(match)) => ~confident
        /\ (AudioMet(match) /\ FileMet(match) /\ ~ReleaseMet(match)) => ~confident

\* the gate has refused a Match that misses the file threshold by one and meets the other two
C3_Witness ==
    /\ pc = "gated"
    /\ match.score.audio = 40
    /\ match.score.file = 69
    /\ match.score.type = 5
    /\ ~confident

\* C4: a file that is skipped is moved or copied to the skip directory and
\* nothing else is done to it: no rename into the output directory, no tags,
\* no normalization (Spec).
C4_SkippedFileUntouched ==
    \A f \in Files :
        wf[f] = "SKIPPED" =>
            /\ disk[f].skipped
            /\ ~disk[f].output
            /\ ~disk[f].tagged
            /\ ~disk[f].normalized
            /\ ~(f = idx /\ raised = "FileNotFoundError")

\* C5: after the lookup a file goes to AUTO_ACCEPTED exactly when the match is
\* confident and manual is not set, and to NEEDS_REVIEW otherwise; an accepted
\* file keeps the selected Song and is never skipped; NEEDS_REVIEW is left only
\* for SKIPPED when skip is set and only for MANUALLY_CORRECTED when it is not;
\* AUTO_ACCEPTED, SKIPPED and MANUALLY_CORRECTED are never left (Spec).
C5_Routing ==
    [][ /\ (wf[idx] = "LOOKED_UP" /\ wf'[idx] # "LOOKED_UP") =>
              wf'[idx] = IF confident /\ ~arguments.manual THEN "AUTO_ACCEPTED" ELSE "NEEDS_REVIEW"
        /\ (wf'[idx] = "AUTO_ACCEPTED" /\ pc' = "modify") => song' = match'.song
        /\ (wf[idx] = "AUTO_ACCEPTED" /\ idx' = idx) => (song' = song /\ ~disk'[idx].skipped)
        /\ (wf[idx] = "NEEDS_REVIEW" /\ wf'[idx] # "NEEDS_REVIEW") =>
              wf'[idx] = IF arguments.skip THEN "SKIPPED" ELSE "MANUALLY_CORRECTED"
        /\ \A f \in Files : wf[f] \in Terminal => wf'[f] = wf[f]
        /\ \A f \in Files : wf'[f] # wf[f] => f = idx
      ]_vars

\* a confident match that manual sent to review has been corrected by the user
C5_Witness ==
    /\ confident
    /\ arguments.manual
    /\ wf[idx] = "MANUALLY_CORRECTED"
    /\ song # match.song

\* C6: when the lookup of one file fails, the batch goes on: the run does not
\* end with a later file unprocessed (Spec).
C6_LookupFailureIsPerFile ==
    (pc = "halted" /\ raised = "WebServiceError" /\ wf[idx] = "PENDING") =>
        \A f \in Files : f > idx => wf[f] \in Terminal

\* the parsed recordings behind the candidates: matches[k + 1] was built from the k-th
Recordings == [k \in 1..Len(RawRecordingsOf(response["results"])) |->
                  AcoustidRecording_from_json(RawRecordingsOf(response["results"])[k])]

\* the positions of the releases whose only classification is type
ExactPositions(releases, type) == {i \in 1..Len(releases) : releases[i].types = <<type>>}

Min(S) == CHOOSE x \in S : \A y \in S : x <= y

\* C7: the release behind a recording's Match is the first release-group
\* classified as Album only (tier ALBUM); without one, the first classified as
\* Single only (tier SINGLE); without either, the fallback titled
\* "<recording title> - Single" of the lowest tier, below SINGLE (SpecMatch).
C7_ReleaseChoiceOrder ==
    Resolved =>
        \A k \in 1..Len(Recordings) :
            LET rec == Recordings[k]
                m == matches[k + 1]
                albums == ExactPositions(rec.releases, "ALBUM")
                singles == ExactPositions(rec.releases, "SINGLE")
            IN IF albums # {}
               THEN m.song.album = rec.releases[Min(albums)].title /\ m.score.type = 10
               ELSE IF singles # {}
               THEN m.song.album = rec.releases[Min(singles)].title /\ m.score.type = 5
               ELSE /\ m.song.album = rec.title \o " - Single"
                    /\ m.score.type = 0
                    /\ m.score.type < ReleaseTypeScore_SINGLE

\* a recording whose exact single comes before its two exact albums got the
\* first of the albums
C7_Witness ==
    /\ Resolved
    /\ \E k \in 1..Len(Recordings) :
          LET rels == Recordings[k].releases
          IN /\ Len(rels) = 3
             /\ rels[1].types = <<"SINGLE">>
             /\ rels[2].types = <<"ALBUM">>
             /\ rels[3].types = <<"ALBUM">>
             /\ rels[2].title # rels[3].title
             /\ matches[k + 1].song.album = rels[2].title
             /\ matches[k + 1].score.type = 10

\* C8: a recording gets tier ALBUM exactly when one of its release-groups has
\* type "Album", no secondary types, and the recording's own artist (SpecMatch).
C8_AlbumNeedsSameArtist ==
    Resolved =>
        LET raw == RawRecordingsOf(response["results"])
        IN \A k \in 1..Len(raw) :
              matches[k + 1].score.type = 10 <=>
                  \E i \in 1..Len(Get(raw[k], "releasegroups", <<>>)) :
                      LET group == raw[k]["releasegroups"][i]
                      IN /\ Get(group, "type", "") = "Album"
                         /\ Get(group, "secondarytypes", <<>>) = <<>>
                         /\ parse_artist(Get(group, "artists", <<>>)) =
                                parse_artist(Get(raw[k], "artists", <<>>))

\* the parsed results with their audio scores replaced by those of audio
WithAudio(results, audio) ==
    [i \in 1..Len(results) |-> [score |-> audio[i], recordings |-> results[i].recordings]]

\* C9: the Match returned is a candidate whose file*1000 + tier is greatest;
\* no candidate has a higher file score than it, whatever the tiers and audio
\* scores; and other audio scores give the same Song (SpecMatch).
C9_RankingByFileThenTier ==
    Resolved =>
        /\ \E i \in 1..Len(matches) : matches[i] = match
        /\ \A i \in 1..Len(matches) :
              /\ match.score.file * 1000 + match.score.type >=
                     matches[i].score.file * 1000 + matches[i].score.type
              /\ match.score.file >= matches[i].score.file
        /\ LET results == ParseResults(response)
           IN \A audio \in [1..Len(results) -> {0, 100}] :
                 find_best_match(WithAudio(results, audio), Basename(mp3file)).song = match.song

\* a candidate of a higher tier and a higher audio score lost to one with a
\* higher file score
C9_Witness ==
    /\ Resolved
    /\ \E i \in 1..Len(matches) :
          /\ matches[i].score.file < match.score.file
          /\ matches[i].score.file > 0
          /\ matches[i].score.type > match.score.type
          /\ matches[i].score.audio > match.score.audio

\* the positions of the candidates with the greatest key
Greatest == {i \in 1..Len(matches) :
                \A j \in 1..Len(matches) :
                    matches[i].score.file * 1000 + matches[i].score.type >=
                        matches[j].score.file * 1000 + matches[j].score.type}

\* C10: among the candidates with the greatest key, the one met first (the
\* sentinel, then the results in order, the recordings of each in order) is
\* the Match returned (SpecMatch).
C10_FirstOfEqualsWins ==
    Resolved => match = matches[Min(Greatest)]

\* two different candidates share the greatest key and the earlier one was returned
C10_Witness ==
    /\ Resolved
    /\ \E i \in Greatest, j \in Greatest :
          /\ 1 < i
          /\ i < j
          /\ matches[i] # matches[j]
          /\ match = matches[i]

\* C11: a Match whose release is an exact Single release-group (tier SINGLE)
\* has that release-group's title followed by " - Single" as album, and a
\* Match whose release is an exact Album release-group (tier ALBUM) has that
\* release-group's title unchanged (SpecMatch).
C11_SingleTitleSuffixed ==
    Resolved =>
        \A k \in 1..Len(Recordings) :
            LET rec == Recordings[k]
                m == matches[k + 1]
                albums == ExactPositions(rec.releases, "ALBUM")
                singles == ExactPositions(rec.releases, "SINGLE")
            IN /\ m.score.type = 5 =>
                     m.song.album = rec.releases[Min(singles)].title \o " - Single"
               /\ m.score.type = 10 =>
                     m.song.album = rec.releases[Min(albums)].title
====
